---- MODULE Spec2Model ----
\* Batch sending of the go-fcm client: Client.SendAll / Client.SendAllDryRun,
\* sendBatch, newBatchRequest, the multipart envelope (multipartEntity.Bytes,
\* part.writeTo) and the multipart response decoder (newBatchResponse,
\* newSendResponse).
\*
\* A call of sendBatch is a process with three steps, cut at the two points
\* where the code blocks on a collaborator: tokenProvider.token() and
\* http.Client.Do.  Values that may be nil in Go are tuples: <<>> is nil and
\* <<v>> is a non-nil v.
EXTENDS Integers, Sequences, FiniteSets, TLC

\* ---------------------------------------------------------------- bounds
\* longest batch whose messages are enumerated one by one
MaxLen == 3
\* largest number of parts in a response body of the service
MaxParts == 3

\* ------------------------------------------------------- program constants
maxMessages == 500
multipartBoundary == "__END_OF_PART__"
defaultEndpoint == "https://fcm.googleapis.com/v1"
defaultBatchEndpoint == "https://fcm.googleapis.com/batch"
apiFormatVersionHeader == "X-GOOG-API-FORMAT-VERSION"
apiFormatVersion == "2"
StatusOK == 200
StatusInternalServerError == 500

Nil == <<>>
Some(v) == <<v>>
Val(o) == o[1]

\* the names of calls (goroutines), and the calls of a sequential behaviour
AllCalls == {"c1", "c2"}
Calls == {"c1"}

\* ------------------------------------------------------------------ client
\* NewClient without options: the default endpoints; the per-message send
\* URL is Sprintf("%s/projects/%s/messages:send", fcmEndpoint, projectID),
\* kept as the tuple of the pieces that Sprintf concatenates.
projectID == "p"
NewClient ==
  [projectID |-> projectID,
   fcmEndpoint |-> defaultEndpoint,
   batchEndpoint |-> defaultBatchEndpoint,
   sendEndpoint |-> <<defaultEndpoint, "/projects/", projectID, "/messages:send">>]

\* the option WithEndpoints(endpoint, batchEndpoint) applied to the client c:
\* both of its tests look at endpoint, and it sets fcmEndpoint and
\* batchEndpoint only
errInvalidEndpoint == [type |-> "error", text |-> "invalid endpoint"]
errInvalidBatchEndpoint == [type |-> "error", text |-> "invalid batchEndpoint"]
WithEndpoints(c, endpoint, batchEndpoint) ==
  IF endpoint = "" THEN [client |-> c, err |-> Some(errInvalidEndpoint)]
  ELSE LET c1 == [c EXCEPT !.fcmEndpoint = endpoint]
       IN IF endpoint = "" THEN [client |-> c1, err |-> Some(errInvalidBatchEndpoint)]
          ELSE [client |-> [c1 EXCEPT !.batchEndpoint = batchEndpoint], err |-> Nil]

\* NewClient(projectID, credentials, WithEndpoints(endpoint, batchEndpoint)):
\* the client with its defaults and its sendEndpoint is built first, the
\* option is applied to it afterwards
NewClientWithEndpoints(endpoint, batchEndpoint) ==
  LET o == WithEndpoints(NewClient, endpoint, batchEndpoint)
  IN IF o.err # Nil THEN [client |-> <<>>, err |-> o.err]
     ELSE [client |-> <<o.client>>, err |-> <<>>]

\* endpoints a caller may configure
Endpoints == {"", "https://fcm.test/v1"}
BatchEndpoints == {"", "https://fcm.test/batch"}

\* ---------------------------------------------------------------- messages
\* A Message is its target token and the verdict Message.Validate() gives on
\* its fields (Validate is a collaborator of the batch code).
Tokens == {"t1", "t2"}
Message == [Token : Tokens, wellFormed : BOOLEAN]
Validate(m) == m.wellFormed

RECURSIVE SeqsUpTo(_, _)
SeqsUpTo(S, n) ==
  IF n = 0 THEN {<<>>}
  ELSE LET shorter == SeqsUpTo(S, n - 1)
       IN shorter \cup {Append(s, x) : s \in {t \in shorter : Len(t) = n - 1}, x \in S}

ValidMessage == [Token |-> "t1", wellFormed |-> TRUE]
InvalidMessage == [Token |-> "t2", wellFormed |-> FALSE]
\* batches at the size limit: maxMessages valid messages, maxMessages + 1
\* valid messages, and maxMessages messages of which the last is invalid
BigBatches ==
  {[i \in 1..maxMessages |-> ValidMessage],
   [i \in 1..(maxMessages + 1) |-> ValidMessage],
   [i \in 1..maxMessages |-> IF i = maxMessages THEN InvalidMessage ELSE ValidMessage]}
Batches == SeqsUpTo(Message, MaxLen) \cup BigBatches

\* ------------------------------------------------------------------ errors
errEmpty == [type |-> "error", text |-> "messages must not be nil or empty"]
errTooMany == [type |-> "error", text |-> "messages must not contain more than %d elements", n |-> maxMessages]
errInvalidMessage(idx) == [type |-> "error", text |-> "invalid message at index %d: %v", idx |-> idx]
errToken == [type |-> "error", text |-> "token"]
errTransport == [type |-> "error", text |-> "transport"]
errCanceled == [type |-> "error", text |-> "context canceled"]
errContentType == [type |-> "error", text |-> "error parsing content-type header: %v"]
errBoundaryEmpty == [type |-> "error", text |-> "multipart: boundary is empty"]
errNextPart == [type |-> "error", text |-> "multipart: NextPart: EOF"]
errReadResponse == [type |-> "error", text |-> "error parsing multipart body: %v"]
errReadAll == [type |-> "error", text |-> "unexpected EOF"]
errJSON == [type |-> "error", text |-> "json"]
EOF == [type |-> "error", text |-> "EOF"]

errNilMessage == [type |-> "error", text |-> "message must not be nil"]
errTokensEmpty == [type |-> "error", text |-> "tokens must not be nil or empty"]
errTokensTooMany == [type |-> "error", text |-> "tokens must not contain more than %d elements", n |-> maxMessages]

\* ------------------------------------------------------ multicast messages
\* A MulticastMessage is its token list and its payload message; of the
\* payload only the verdict of Validate on the fields that toMessages copies
\* is kept.  A nil *MulticastMessage is Nil.
Payload == [wellFormed : BOOLEAN]
Multicasts ==
  {Nil}
  \cup {Some([Tokens |-> ts, Message |-> m]) : ts \in SeqsUpTo(Tokens, MaxLen), m \in Payload}
  \cup {Some([Tokens |-> [i \in 1..n |-> "t1"], Message |-> [wellFormed |-> TRUE]]) :
          n \in {maxMessages, maxMessages + 1}}

\* MulticastMessage.toMessages building the list back to front
mmToMessages_Reversed(mm) ==
  IF Len(mm.Tokens) = 0 THEN [messages |-> <<>>, err |-> Some(errTokensEmpty)]
  ELSE IF Len(mm.Tokens) > maxMessages THEN [messages |-> <<>>, err |-> Some(errTokensTooMany)]
  ELSE [messages |-> [i \in 1..Len(mm.Tokens) |->
                        [Token |-> mm.Tokens[Len(mm.Tokens) + 1 - i],
                         wellFormed |-> mm.Message.wellFormed]],
        err |-> Nil]

\* MulticastMessage.toMessages: one message per token, in token order, each
\* with the fields of the payload
mmToMessages(mm) ==
  IF Len(mm.Tokens) = 0 THEN [messages |-> <<>>, err |-> Some(errTokensEmpty)]
  ELSE IF Len(mm.Tokens) > maxMessages THEN [messages |-> <<>>, err |-> Some(errTokensTooMany)]
  ELSE [messages |-> [i \in 1..Len(mm.Tokens) |->
                        [Token |-> mm.Tokens[i], wellFormed |-> mm.Message.wellFormed]],
        err |-> Nil]

\* toMessages: the nil check, then MulticastMessage.toMessages
toMessages(message) ==
  IF message = Nil THEN [messages |-> <<>>, err |-> Some(errNilMessage)]
  ELSE mmToMessages(Val(message))

\* ------------------------------------------------- the multipart envelope
\* part.bytes: the embedded request as http.Request.Write emits it, kept as
\* its request line, headers and JSON body (the fcmRequest that is
\* marshalled; its byte length, the Content-Length header, is not kept).
bytes(p) ==
  [Method |-> p.method,
   URL |-> p.url,
   Header |-> [apiFormat |-> p.headers.apiFormat,
               ContentType |-> "application/json; charset=UTF-8",
               UserAgent |-> ""],
   Body |-> p.body]

\* writeTo numbering the parts from 0
writeTo_ZeroBased(p, idx) ==
  [ContentType |-> "application/http",
   ContentId |-> idx,
   ContentTransferEncoding |-> "binary",
   payload |-> bytes(p)]

\* part.writeTo: the MIME part written for the part at 0-based index idx
writeTo(p, idx) ==
  [ContentType |-> "application/http",
   ContentId |-> idx + 1,
   ContentTransferEncoding |-> "binary",
   payload |-> bytes(p)]

\* multipartEntity.Bytes: the parts in order, framed by the fixed boundary
Bytes(e) ==
  [boundary |-> multipartBoundary,
   parts |-> [i \in 1..Len(e.parts) |-> writeTo(e.parts[i], i - 1)]]

\* multipartEntity.Mime: Sprintf("multipart/mixed; boundary=%s", boundary)
Mime(e) == <<"multipart/mixed; boundary=", multipartBoundary>>

\* ------------------------------------------------------- newBatchRequest
\* validateAll letting every message through
validateAll_Skip(messages) == -1

\* validateAll reporting the failing message by its 1-based position
validateAll_OneBased(messages) ==
  LET bad == {i \in 1..Len(messages) : ~Validate(messages[i])}
  IN IF bad = {} THEN -1
     ELSE CHOOSE i \in bad : \A j \in bad : i <= j

\* the validation loop: the 0-based index of the first message that fails
\* Validate, or -1 when every message passes
validateAll(messages) ==
  LET bad == {i \in 1..Len(messages) : ~Validate(messages[i])}
  IN IF bad = {} THEN -1
     ELSE (CHOOSE i \in bad : \A j \in bad : i <= j) - 1

\* the number of Validate calls the loop makes
validateCalls(messages) ==
  IF validateAll(messages) = -1 THEN Len(messages) ELSE validateAll(messages) + 1

\* newPart never asking for validation only
newPart_NeverDryRun(c, m, dry) ==
  [method |-> "POST",
   url |-> c.sendEndpoint,
   body |-> [Message |-> m, ValidateOnly |-> FALSE],
   headers |-> [apiFormat |-> <<apiFormatVersionHeader, apiFormatVersion>>]]

\* the part built for one message
newPart(c, m, dry) ==
  [method |-> "POST",
   url |-> c.sendEndpoint,
   body |-> [Message |-> m, ValidateOnly |-> dry],
   headers |-> [apiFormat |-> <<apiFormatVersionHeader, apiFormatVersion>>]]

\* http.NewRequest(POST, batchEndpoint, body): a request without headers,
\* whose context is context.Background()
NewRequest(url, body) ==
  [Method |-> "POST", URL |-> url, ctx |-> "Background",
   Header |-> [Authorization |-> Nil, ContentType |-> Nil],
   Body |-> body]

\* newBatchRequest up to the call of tokenProvider.token(): the error of the
\* validation loop, or the outer request built from the envelope
newBatchRequest(c, messages, dry) ==
  LET idx == validateAll(messages)
      parts == [i \in 1..Len(messages) |-> newPart(c, messages[i], dry)]
      body == [parts |-> parts]
  IN IF idx # -1
     THEN [req |-> Nil, err |-> Some(errInvalidMessage(idx))]
     ELSE [req |-> Some(NewRequest(c.batchEndpoint, Bytes(body))), err |-> Nil]

\* the header lines added once the token is there
addHeaders(req, token) ==
  [req EXCEPT !.Header = [Authorization |-> Some(<<"Bearer ", token>>),
                          ContentType |-> Some(Mime([parts |-> <<>>]))]]

\* sizeError rejecting a batch of exactly maxMessages messages
sizeError_Inclusive(messages) ==
  IF Len(messages) = 0 THEN Some(errEmpty)
  ELSE IF Len(messages) >= maxMessages THEN Some(errTooMany)
  ELSE Nil

\* the size checks at the head of sendBatch
sizeError(messages) ==
  IF Len(messages) = 0 THEN Some(errEmpty)
  ELSE IF Len(messages) > maxMessages THEN Some(errTooMany)
  ELSE Nil

\* ------------------------------------------------ responses of the service
\* Content-Type headers an outer response may carry
CtBoundary == "multipart/mixed; boundary=b"
CtNoBoundary == "multipart/mixed"
CtEmpty == ""
ContentTypes == {CtBoundary, CtNoBoundary, CtEmpty}

\* mime.ParseMediaType on these header values: an empty header is an error
\* ("mime: no media type"), a media type without parameters has no boundary
ParseMediaType(v) ==
  IF v = CtEmpty THEN [params |-> [boundary |-> ""], err |-> Some(errContentType)]
  ELSE IF v = CtNoBoundary THEN [params |-> [boundary |-> ""], err |-> Nil]
  ELSE [params |-> [boundary |-> "b"], err |-> Nil]

\* bodies an embedded response may carry
BodyName == "{\"name\":\"projects/p/messages/123\"}"
BodyText == "not found"
PartBodies == {BodyName, BodyText}

\* json.Unmarshal(b, &fcmResponse{}) on these bodies
jsonUnmarshal(b) ==
  IF b = BodyName THEN [Name |-> "projects/p/messages/123", err |-> Nil]
  ELSE [Name |-> "", err |-> Some(errJSON)]

\* A part of a response body: form "ok" is a parseable embedded HTTP response
\* whose body can be read in full, "malformed" is one http.ReadResponse
\* rejects, "shortBody" is one whose body ends before its Content-Length.
PartStatuses == {200, 404}
ResponseParts ==
  [form : {"ok"}, StatusCode : PartStatuses, Body : PartBodies]
  \cup {[form |-> "malformed", StatusCode |-> 0, Body |-> ""],
        [form |-> "shortBody", StatusCode |-> 200, Body |-> ""]}

\* A response body: its parts, and whether the closing delimiter follows them
ResponseBodies == [parts : SeqsUpTo(ResponseParts, MaxParts), closed : BOOLEAN]
EmptyBody == [parts |-> <<>>, closed |-> TRUE]

\* What the transport may hand back: statuses other than 200 (201 is a 2xx
\* one), and 200 with each Content-Type and body.
OuterStatuses == {201, 404, 500}
Responses ==
  [StatusCode : OuterStatuses, ContentType : {CtBoundary}, Body : {EmptyBody}]
  \cup [StatusCode : {StatusOK}, ContentType : {CtNoBoundary, CtEmpty}, Body : {EmptyBody}]
  \cup [StatusCode : {StatusOK}, ContentType : {CtBoundary}, Body : ResponseBodies]

\* ------------------------------------------------------ response decoder
Failure(code, body) ==
  [Success |-> FALSE, MessageID |-> "", ErrorCode |-> code, ErrorBody |-> body]
Success(id) ==
  [Success |-> TRUE, MessageID |-> id, ErrorCode |-> 0, ErrorBody |-> ""]

\* newSendResponse returning an error for a part whose status is not 200
newSendResponse_FailureIsError(part) ==
  IF part.form = "malformed" THEN [sr |-> Nil, err |-> Some(errReadResponse)]
  ELSE IF part.form = "shortBody" THEN [sr |-> Nil, err |-> Some(errReadAll)]
  ELSE IF jsonUnmarshal(part.Body).err # Nil \/ part.StatusCode # StatusOK
       THEN [sr |-> Nil, err |-> Some(errJSON)]
  ELSE [sr |-> Some(Success(jsonUnmarshal(part.Body).Name)), err |-> Nil]

\* newSendResponse: one part to one SendResponse, or an error
newSendResponse(part) ==
  IF part.form = "malformed" THEN [sr |-> Nil, err |-> Some(errReadResponse)]
  ELSE IF part.form = "shortBody" THEN [sr |-> Nil, err |-> Some(errReadAll)]
  ELSE IF part.StatusCode # StatusOK
       THEN [sr |-> Some(Failure(part.StatusCode, part.Body)), err |-> Nil]
  ELSE IF jsonUnmarshal(part.Body).err # Nil
       THEN [sr |-> Nil, err |-> jsonUnmarshal(part.Body).err]
  ELSE [sr |-> Some(Success(jsonUnmarshal(part.Body).Name)), err |-> Nil]

\* multipart.NewReader(body, boundary): the reader and its position
NewReader(body, boundary) == [body |-> body, boundary |-> boundary]

\* multipart.Reader.NextPart for the i-th call (i from 1): an empty boundary
\* is an error, the closing delimiter is io.EOF, a stream that ends without
\* it is an error
NextPart(mr, i) ==
  IF mr.boundary = "" THEN [part |-> Nil, err |-> Some(errBoundaryEmpty)]
  ELSE IF i <= Len(mr.body.parts) THEN [part |-> Some(mr.body.parts[i]), err |-> Nil]
  ELSE IF mr.body.closed THEN [part |-> Nil, err |-> Some(EOF)]
  ELSE [part |-> Nil, err |-> Some(errNextPart)]

\* countSuccess counting every part
countSuccess_Always(successCount, sr) == successCount + 1

\* successCount++ when the part was a success
countSuccess(successCount, sr) ==
  IF sr.Success THEN successCount + 1 ELSE successCount

\* the MulticastResponse returned after the loop
MulticastResponse(responses, successCount) ==
  [Responses |-> responses,
   SuccessCount |-> successCount,
   FailureCount |-> Len(responses) - successCount]

\* the loop of newBatchResponse skipping a part that cannot be parsed
RECURSIVE decodeParts_SkipBad(_, _, _, _)
decodeParts_SkipBad(mr, i, responses, successCount) ==
  LET np == NextPart(mr, i)
      r == newSendResponse(Val(np.part))
  IN IF np.err = Some(EOF)
     THEN [result |-> Some(MulticastResponse(responses, successCount)), err |-> Nil]
     ELSE IF np.err # Nil THEN [result |-> Nil, err |-> np.err]
     ELSE IF r.err # Nil THEN decodeParts_SkipBad(mr, i + 1, responses, successCount)
     ELSE decodeParts_SkipBad(mr, i + 1, Append(responses, Val(r.sr)),
                              countSuccess(successCount, Val(r.sr)))

\* the loop of newBatchResponse ending on any error of NextPart
RECURSIVE decodeParts_AnyErrEnds(_, _, _, _)
decodeParts_AnyErrEnds(mr, i, responses, successCount) ==
  LET np == NextPart(mr, i)
      r == newSendResponse(Val(np.part))
  IN IF np.err # Nil
     THEN [result |-> Some(MulticastResponse(responses, successCount)), err |-> Nil]
     ELSE IF r.err # Nil THEN [result |-> Nil, err |-> r.err]
     ELSE decodeParts_AnyErrEnds(mr, i + 1, Append(responses, Val(r.sr)),
                                 countSuccess(successCount, Val(r.sr)))

\* the loop of newBatchResponse from its i-th iteration
RECURSIVE decodeParts(_, _, _, _)
decodeParts(mr, i, responses, successCount) ==
  LET np == NextPart(mr, i)
      r == newSendResponse(Val(np.part))
  IN IF np.err = Some(EOF)
     THEN [result |-> Some(MulticastResponse(responses, successCount)), err |-> Nil]
     ELSE IF np.err # Nil THEN [result |-> Nil, err |-> np.err]
     ELSE IF r.err # Nil THEN [result |-> Nil, err |-> r.err]
     ELSE decodeParts(mr, i + 1, Append(responses, Val(r.sr)),
                      countSuccess(successCount, Val(r.sr)))

\* newBatchResponse handing back what it decoded so far next to the error
newBatchResponse_PartialWithError(resp) ==
  LET mt == ParseMediaType(resp.ContentType)
  IN IF mt.err # Nil
     THEN [result |-> Some(MulticastResponse(<<>>, 0)), err |-> mt.err]
     ELSE decodeParts(NewReader(resp.Body, mt.params.boundary), 1, <<>>, 0)

\* newBatchResponse
newBatchResponse(resp) ==
  LET mt == ParseMediaType(resp.ContentType)
  IN IF mt.err # Nil THEN [result |-> Nil, err |-> mt.err]
     ELSE decodeParts(NewReader(resp.Body, mt.params.boundary), 1, <<>>, 0)

\* --------------------------------------------------------- sendBatch tail
\* statusOK letting every status below 500 through to the decoder
statusOK_Below500(resp) == resp.StatusCode < StatusInternalServerError

\* statusOK accepting the whole 2xx range
statusOK_Any2xx(resp) == resp.StatusCode \in 200..299

\* the status check of sendBatch
statusOK(resp) == resp.StatusCode = StatusOK

DumpRequest(req) == [Method |-> req.Method, URL |-> req.URL, Header |-> req.Header]
DumpResponse(resp) == [StatusCode |-> resp.StatusCode, ContentType |-> resp.ContentType]

HttpError(req, resp) ==
  [type |-> "HttpError",
   RequestDump |-> DumpRequest(req),
   ResponseDump |-> DumpResponse(resp),
   Err |-> [type |-> "error", text |-> "%d error: %s", code |-> resp.StatusCode]]

\* sendBatch from the return of client.Do with a response
classify(req, resp) ==
  IF ~statusOK(resp)
  THEN [result |-> Nil, err |-> Some(HttpError(req, resp)), decoded |-> 0]
  ELSE [result |-> newBatchResponse(resp).result,
        err |-> newBatchResponse(resp).err, decoded |-> 1]

\* ------------------------------------------------------------------- state
VARIABLES
  pc,         \* per call: "idle", "token" (in tokenProvider.token), "awaiting" (in client.Do), "done"
  messages,   \* per call: the messages argument
  dryRun,     \* per call: the dryRun argument
  ctxDone,    \* per call: whether the ctx argument has been cancelled
  cancelledAt, \* per call: where the call stood when ctx was cancelled, "never" if it was not
  request,    \* per call: the outer *http.Request, nil until http.NewRequest built it
  resp,       \* per call: the *http.Response client.Do returned, nil if none
  result,     \* per call: the returned *MulticastResponse
  err,        \* per call: the returned error
  client,     \* the *Client the calls are made on
  entry,      \* per call: the exported method that was called, "" before the call
  multicast,  \* per call: the *MulticastMessage argument of a multicast call, nil otherwise
  cli,        \* per call: the flags of the fcm-send run that made the call, nil otherwise
  seen,       \* per call: what tokenProvider.token() and client.Do returned to it
  calls       \* per call: how often the validator, the token provider, the transport and newBatchResponse were entered

vars == <<pc, messages, dryRun, ctxDone, cancelledAt, request, resp, result, err,
          client, entry, multicast, cli, seen, calls>>

noCalls == [validate |-> 0, token |-> 0, transport |-> 0, decoder |-> 0]

noneSeen == [token |-> Nil, do |-> Nil]

\* the calls cs, none of them started, on the client cl
InitCalls(cs, cl) ==
  /\ pc = [c \in cs |-> "idle"]
  /\ messages = [c \in cs |-> <<>>]
  /\ dryRun = [c \in cs |-> FALSE]
  /\ ctxDone = [c \in cs |-> FALSE]
  /\ cancelledAt = [c \in cs |-> "never"]
  /\ request = [c \in cs |-> Nil]
  /\ resp = [c \in cs |-> Nil]
  /\ result = [c \in cs |-> Nil]
  /\ err = [c \in cs |-> Nil]
  /\ client = cl
  /\ entry = [c \in cs |-> ""]
  /\ multicast = [c \in cs |-> Nil]
  /\ cli = [c \in cs |-> Nil]
  /\ seen = [c \in cs |-> noneSeen]
  /\ calls = [c \in cs |-> noCalls]

\* one call on a client made by NewClient without options
Init == InitCalls(Calls, NewClient)

\* one call on a client that NewClient returned for a WithEndpoints option
InitEndpoints ==
  \E endpoint \in Endpoints, batchEndpoint \in BatchEndpoints :
    LET r == NewClientWithEndpoints(endpoint, batchEndpoint)
    IN /\ r.err = Nil
       /\ InitCalls(Calls, Val(r.client))

\* what client.Do(req) may return: a request bound to a cancelled context is
\* aborted with the context's error; otherwise the exchange fails or yields a
\* response
DoOutcomes(req, cancelled) ==
  IF req.ctx # "Background" /\ cancelled
  THEN {[resp |-> Nil, err |-> Some(errCanceled)]}
  ELSE {[resp |-> Nil, err |-> Some(errTransport)]}
       \cup {[resp |-> Some(r), err |-> Nil] : r \in Responses}

\* what tokenProvider.token() may return
TokenOutcomes == {[token |-> "tok", err |-> Nil], [token |-> "", err |-> Some(errToken)]}

\* sendBatch from its entry to the call of tokenProvider.token() inside
\* newBatchRequest
sendBatch(c, msgs, dry) ==
  /\ c \in DOMAIN pc
  /\ messages' = [messages EXCEPT ![c] = msgs]
  /\ dryRun' = [dryRun EXCEPT ![c] = dry]
  /\ IF sizeError(msgs) # Nil
     THEN /\ err' = [err EXCEPT ![c] = sizeError(msgs)]
          /\ pc' = [pc EXCEPT ![c] = "done"]
          /\ UNCHANGED <<request, calls>>
     ELSE LET r == newBatchRequest(client, msgs, dry)
          IN /\ calls' = [calls EXCEPT ![c].validate = validateCalls(msgs)]
             /\ request' = [request EXCEPT ![c] = r.req]
             /\ err' = [err EXCEPT ![c] = r.err]
             /\ pc' = [pc EXCEPT ![c] = IF r.err # Nil THEN "done" ELSE "token"]
  /\ UNCHANGED <<ctxDone, cancelledAt, resp, result, client, seen>>

SendAll(c) ==
  /\ c \in DOMAIN pc
  /\ pc[c] = "idle"
  /\ \E msgs \in Batches : sendBatch(c, msgs, FALSE)
  /\ entry' = [entry EXCEPT ![c] = "SendAll"]
  /\ UNCHANGED <<multicast, cli>>

SendAllDryRun(c) ==
  /\ c \in DOMAIN pc
  /\ pc[c] = "idle"
  /\ \E msgs \in Batches : sendBatch(c, msgs, TRUE)
  /\ entry' = [entry EXCEPT ![c] = "SendAllDryRun"]
  /\ UNCHANGED <<multicast, cli>>

\* SendMulticast (dry = FALSE) and SendMulticastDryRun (dry = TRUE) with the
\* argument message: toMessages, then SendAll or SendAllDryRun
sendMulticast(c, message, dry) ==
  LET r == toMessages(message)
  IN /\ multicast' = [multicast EXCEPT ![c] = message]
     /\ IF r.err # Nil
        THEN /\ err' = [err EXCEPT ![c] = r.err]
             /\ pc' = [pc EXCEPT ![c] = "done"]
             /\ UNCHANGED <<messages, dryRun, request, calls, ctxDone, cancelledAt,
                            resp, result, client, seen>>
        ELSE sendBatch(c, r.messages, dry)

SendMulticast(c) ==
  /\ c \in DOMAIN pc
  /\ pc[c] = "idle"
  /\ \E message \in Multicasts : sendMulticast(c, message, FALSE)
  /\ entry' = [entry EXCEPT ![c] = "SendMulticast"]
  /\ UNCHANGED cli

SendMulticastDryRun(c) ==
  /\ c \in DOMAIN pc
  /\ pc[c] = "idle"
  /\ \E message \in Multicasts : sendMulticast(c, message, TRUE)
  /\ entry' = [entry EXCEPT ![c] = "SendMulticastDryRun"]
  /\ UNCHANGED cli

\* what NewClient may return in fcm-send: the client, or the error of
\* newTokenProvider on the credentials file
errCredentials == [type |-> "error", text |-> "credentials"]
NewClientOutcomes == {[client |-> Some(NewClient), err |-> Nil],
                      [client |-> Nil, err |-> Some(errCredentials)]}

\* setupNotification of fcm-send with the flags --validate-only and
\* --tokens: the multicast message from the flags, NewClient, then the
\* multicast method chosen by validateOnly
setupNotification(c, validateOnly, tokens, payload, nc) ==
  LET message == Some([Tokens |-> tokens, Message |-> payload])
  IN /\ cli' = [cli EXCEPT ![c] = Some([validateOnly |-> validateOnly, tokens |-> tokens])]
     /\ IF nc.err # Nil
        THEN /\ err' = [err EXCEPT ![c] = nc.err]
             /\ pc' = [pc EXCEPT ![c] = "done"]
             /\ UNCHANGED <<messages, dryRun, request, calls, ctxDone, cancelledAt,
                            resp, result, client, seen, entry, multicast>>
        ELSE IF validateOnly
        THEN /\ sendMulticast(c, message, FALSE)
             /\ entry' = [entry EXCEPT ![c] = "SendMulticast"]
        ELSE /\ sendMulticast(c, message, TRUE)
             /\ entry' = [entry EXCEPT ![c] = "SendMulticastDryRun"]

\* one run of the fcm-send command
fcmSend(c) ==
  /\ c \in DOMAIN pc
  /\ pc[c] = "idle"
  /\ \E validateOnly \in BOOLEAN, tokens \in SeqsUpTo(Tokens, MaxLen),
        payload \in Payload, nc \in NewClientOutcomes :
       setupNotification(c, validateOnly, tokens, payload, nc)

\* tokenStep going on to client.Do with whatever token() returned
tokenStep_SendsAnyway(c, t) ==
  /\ seen' = [seen EXCEPT ![c].token = Some(t)]
  /\ request' = [request EXCEPT ![c] = Some(addHeaders(Val(request[c]), t.token))]
  /\ pc' = [pc EXCEPT ![c] = "awaiting"]
  /\ calls' = [calls EXCEPT ![c].token = @ + 1, ![c].transport = @ + 1]
  /\ UNCHANGED <<messages, dryRun, ctxDone, cancelledAt, resp, result, err,
                 client, entry, multicast, cli>>

\* tokenProvider.token() returned t: on an error newBatchRequest and
\* sendBatch return it; otherwise the headers are added and sendBatch enters
\* client.Do
tokenStep(c, t) ==
  /\ seen' = [seen EXCEPT ![c].token = Some(t)]
  /\ IF t.err # Nil
     THEN /\ err' = [err EXCEPT ![c] = t.err]
          /\ pc' = [pc EXCEPT ![c] = "done"]
          /\ calls' = [calls EXCEPT ![c].token = @ + 1]
          /\ UNCHANGED request
     ELSE /\ request' = [request EXCEPT ![c] = Some(addHeaders(Val(request[c]), t.token))]
          /\ pc' = [pc EXCEPT ![c] = "awaiting"]
          /\ calls' = [calls EXCEPT ![c].token = @ + 1, ![c].transport = @ + 1]
          /\ UNCHANGED err
  /\ UNCHANGED <<messages, dryRun, ctxDone, cancelledAt, resp, result,
                 client, entry, multicast, cli>>

token(c) ==
  /\ c \in DOMAIN pc
  /\ pc[c] = "token"
  /\ \E t \in TokenOutcomes : tokenStep(c, t)

\* doStep keeping the decoded result in one place shared by all calls
doStep_SharedResult(c, o) ==
  /\ seen' = [seen EXCEPT ![c].do = Some(o)]
  /\ IF o.err # Nil
     THEN /\ err' = [err EXCEPT ![c] = o.err]
          /\ UNCHANGED <<resp, result, calls>>
     ELSE LET r == classify(Val(request[c]), Val(o.resp))
          IN /\ resp' = [resp EXCEPT ![c] = o.resp]
             /\ result' = [x \in DOMAIN result |-> r.result]
             /\ err' = [err EXCEPT ![c] = r.err]
             /\ calls' = [calls EXCEPT ![c].decoder = @ + r.decoded]
  /\ pc' = [pc EXCEPT ![c] = "done"]
  /\ UNCHANGED <<messages, dryRun, ctxDone, cancelledAt, request,
                 client, entry, multicast, cli>>

\* doStep sending the request once more after a transport error
doStep_Retry(c, o) ==
  /\ seen' = [seen EXCEPT ![c].do = Some(o)]
  /\ IF o.err # Nil /\ calls[c].transport < 2
     THEN /\ calls' = [calls EXCEPT ![c].transport = @ + 1]
          /\ UNCHANGED <<resp, result, err, pc>>
     ELSE IF o.err # Nil
     THEN /\ err' = [err EXCEPT ![c] = o.err]
          /\ pc' = [pc EXCEPT ![c] = "done"]
          /\ UNCHANGED <<resp, result, calls>>
     ELSE LET r == classify(Val(request[c]), Val(o.resp))
          IN /\ resp' = [resp EXCEPT ![c] = o.resp]
             /\ result' = [result EXCEPT ![c] = r.result]
             /\ err' = [err EXCEPT ![c] = r.err]
             /\ calls' = [calls EXCEPT ![c].decoder = @ + r.decoded]
             /\ pc' = [pc EXCEPT ![c] = "done"]
  /\ UNCHANGED <<messages, dryRun, ctxDone, cancelledAt, request,
                 client, entry, multicast, cli>>

\* client.Do returned o: sendBatch returns its error, or classifies the
\* response and decodes it
doStep(c, o) ==
  /\ seen' = [seen EXCEPT ![c].do = Some(o)]
  /\ IF o.err # Nil
     THEN /\ err' = [err EXCEPT ![c] = o.err]
          /\ UNCHANGED <<resp, result, calls>>
     ELSE LET r == classify(Val(request[c]), Val(o.resp))
          IN /\ resp' = [resp EXCEPT ![c] = o.resp]
             /\ result' = [result EXCEPT ![c] = r.result]
             /\ err' = [err EXCEPT ![c] = r.err]
             /\ calls' = [calls EXCEPT ![c].decoder = @ + r.decoded]
  /\ pc' = [pc EXCEPT ![c] = "done"]
  /\ UNCHANGED <<messages, dryRun, ctxDone, cancelledAt, request,
                 client, entry, multicast, cli>>

Do(c) ==
  /\ c \in DOMAIN pc
  /\ pc[c] = "awaiting"
  /\ \E o \in DoOutcomes(Val(request[c]), ctxDone[c]) : doStep(c, o)

\* the batches and the responses of the calls that run concurrently
ConcBatches == {<<>>, <<ValidMessage>>, <<InvalidMessage>>}
ConcResponses ==
  {[StatusCode |-> 500, ContentType |-> CtBoundary, Body |-> EmptyBody],
   [StatusCode |-> StatusOK, ContentType |-> CtNoBoundary, Body |-> EmptyBody],
   [StatusCode |-> StatusOK, ContentType |-> CtBoundary,
    Body |-> [parts |-> <<[form |-> "ok", StatusCode |-> 200, Body |-> BodyName]>>, closed |-> TRUE]],
   [StatusCode |-> StatusOK, ContentType |-> CtBoundary,
    Body |-> [parts |-> <<[form |-> "ok", StatusCode |-> 404, Body |-> BodyText]>>, closed |-> TRUE]],
   [StatusCode |-> StatusOK, ContentType |-> CtBoundary,
    Body |-> [parts |-> <<[form |-> "ok", StatusCode |-> 200, Body |-> BodyText]>>, closed |-> TRUE]]}

\* SendAll, SendAllDryRun and the return of client.Do for these
ConcSendAll(c) ==
  /\ c \in DOMAIN pc
  /\ pc[c] = "idle"
  /\ \E msgs \in ConcBatches : sendBatch(c, msgs, FALSE)
  /\ entry' = [entry EXCEPT ![c] = "SendAll"]
  /\ UNCHANGED <<multicast, cli>>

ConcSendAllDryRun(c) ==
  /\ c \in DOMAIN pc
  /\ pc[c] = "idle"
  /\ \E msgs \in ConcBatches : sendBatch(c, msgs, TRUE)
  /\ entry' = [entry EXCEPT ![c] = "SendAllDryRun"]
  /\ UNCHANGED <<multicast, cli>>

ConcDo(c) ==
  /\ c \in DOMAIN pc
  /\ pc[c] = "awaiting"
  /\ \E o \in {x \in DoOutcomes(Val(request[c]), ctxDone[c]) :
                 x.resp = Nil \/ Val(x.resp) \in ConcResponses} : doStep(c, o)

\* the caller cancels the context it passed, while the call is blocked
Cancel(c) ==
  /\ c \in DOMAIN pc
  /\ pc[c] \in {"token", "awaiting"}
  /\ ~ctxDone[c]
  /\ ctxDone' = [ctxDone EXCEPT ![c] = TRUE]
  /\ cancelledAt' = [cancelledAt EXCEPT ![c] = pc[c]]
  /\ UNCHANGED <<pc, messages, dryRun, request, resp, result, err, calls,
                 client, entry, multicast, cli, seen>>

Next ==
  \/ \E c \in AllCalls : SendAll(c)
  \/ \E c \in AllCalls : SendAllDryRun(c)
  \/ \E c \in AllCalls : token(c)
  \/ \E c \in AllCalls : Do(c)
  \/ \E c \in AllCalls : Cancel(c)

Spec == Init /\ [][Next]_vars

\* the four batch methods of the client, called with a context that is not
\* cancelled
NextMulticast ==
  \/ \E c \in AllCalls : SendAll(c)
  \/ \E c \in AllCalls : SendAllDryRun(c)
  \/ \E c \in AllCalls : SendMulticast(c)
  \/ \E c \in AllCalls : SendMulticastDryRun(c)
  \/ \E c \in AllCalls : token(c)
  \/ \E c \in AllCalls : Do(c)

SpecMulticast == Init /\ [][NextMulticast]_vars

\* the fcm-send command, which calls with context.Background()
NextCli ==
  \/ \E c \in AllCalls : fcmSend(c)
  \/ \E c \in AllCalls : token(c)
  \/ \E c \in AllCalls : Do(c)

SpecCli == Init /\ [][NextCli]_vars

SpecEndpoints == InitEndpoints /\ [][Next]_vars

\* two calls on the same client, their steps interleaved in every way
InitConc == InitCalls(AllCalls, NewClient)

NextConc ==
  \/ \E c \in AllCalls : ConcSendAll(c)
  \/ \E c \in AllCalls : ConcSendAllDryRun(c)
  \/ \E c \in AllCalls : token(c)
  \/ \E c \in AllCalls : ConcDo(c)
  \/ \E c \in AllCalls : Cancel(c)

SpecConc == InitConc /\ [][NextConc]_vars

\* ------------------------------------------------------------------ claims
Done(c) == pc[c] = "done"
Returned(c) == Done(c) /\ err[c] = Nil /\ result[c] # Nil
SizeOK(msgs) == Len(msgs) >= 1 /\ Len(msgs) <= maxMessages
InvalidAt(msgs) == {i \in 1..Len(msgs) : ~Validate(msgs[i])}
TransportUntouched(c) == calls[c].transport = 0 /\ resp[c] = Nil

\* C1: a batch call that returns a result without error returns exactly one
\* outcome per input message.
C1_OneOutcomePerMessage ==
  \A c \in DOMAIN pc :
    Returned(c) => Len(Val(result[c]).Responses) = Len(messages[c])

\* C2: when exactly one message, at 0-based index k, fails validation, the
\* call ends with the error naming k, without a result, and the transport was
\* never invoked.
C2_InvalidMessageAborts ==
  \A c \in DOMAIN pc :
    (pc[c] # "idle" /\ SizeOK(messages[c]) /\ Cardinality(InvalidAt(messages[c])) = 1)
    => \A k \in InvalidAt(messages[c]) :
         /\ Done(c)
         /\ err[c] = Some(errInvalidMessage(k - 1))
         /\ result[c] = Nil
         /\ request[c] = Nil
         /\ TransportUntouched(c)

C2_Witness ==
  \E c \in DOMAIN pc :
    /\ Done(c)
    /\ Len(messages[c]) = 3
    /\ InvalidAt(messages[c]) = {2}
    /\ err[c] = Some(errInvalidMessage(1))

\* C3: a batch of 0 or of more than maxMessages messages ends with an error
\* and no result, and neither the validator, nor the token provider, nor the
\* transport was entered; a batch of exactly maxMessages messages is not
\* rejected for its size.
C3_SizeCheck ==
  \A c \in DOMAIN pc :
    pc[c] # "idle" =>
      /\ ~SizeOK(messages[c]) =>
           /\ Done(c)
           /\ err[c] \in {Some(errEmpty), Some(errTooMany)}
           /\ result[c] = Nil
           /\ request[c] = Nil
           /\ calls[c] = noCalls
      /\ Len(messages[c]) = maxMessages =>
           /\ err[c] \notin {Some(errEmpty), Some(errTooMany)}
           /\ calls[c].validate >= 1

C3_Witness ==
  \E c \in DOMAIN pc :
    /\ Len(messages[c]) = maxMessages + 1
    /\ Done(c)
    /\ err[c] = Some(errTooMany)

\* C4: an outer response whose status is not 2xx ends the call with an
\* HttpError carrying the dumps of the request and of the response, without
\* a result, and the decoder was never run.
C4_Non2xxIsHttpError ==
  \A c \in DOMAIN pc :
    (Done(c) /\ resp[c] # Nil /\ Val(resp[c]).StatusCode \notin 200..299)
    => /\ err[c] # Nil
       /\ Val(err[c]).type = "HttpError"
       /\ Val(err[c]).RequestDump = DumpRequest(Val(request[c]))
       /\ Val(err[c]).ResponseDump = DumpResponse(Val(resp[c]))
       /\ result[c] = Nil
       /\ calls[c].decoder = 0

C4_Witness ==
  \E c \in DOMAIN pc :
    /\ Done(c)
    /\ resp[c] # Nil
    /\ Val(resp[c]).StatusCode = 500
    /\ err[c] # Nil
    /\ Val(err[c]).type = "HttpError"

\* C5 as stated: every outer response with a status in 200..299 is handed to
\* the decoder and is not an HttpError.
C5_Every2xxIsDecoded ==
  \A c \in DOMAIN pc :
    (Done(c) /\ resp[c] # Nil /\ Val(resp[c]).StatusCode \in 200..299)
    => /\ calls[c].decoder = 1
       /\ (err[c] # Nil => Val(err[c]).type # "HttpError")

\* C5 amended: an outer response with status exactly 200 is handed to the
\* decoder once and the call returns what the decoder returns; every other
\* status, 201..299 included, ends in an HttpError without decoding.
C5_Only200IsDecoded ==
  \A c \in DOMAIN pc :
    (Done(c) /\ resp[c] # Nil)
    => IF Val(resp[c]).StatusCode = 200
       THEN /\ calls[c].decoder = 1
            /\ result[c] = newBatchResponse(Val(resp[c])).result
            /\ err[c] = newBatchResponse(Val(resp[c])).err
            /\ (err[c] # Nil => Val(err[c]).type # "HttpError")
       ELSE /\ calls[c].decoder = 0
            /\ result[c] = Nil
            /\ err[c] # Nil
            /\ Val(err[c]).type = "HttpError"

C5_Witness ==
  \E c \in DOMAIN pc :
    /\ Done(c)
    /\ resp[c] # Nil
    /\ Val(resp[c]).StatusCode = 200
    /\ calls[c].decoder = 1
    /\ result[c] # Nil
    /\ Len(Val(result[c]).Responses) = 2

\* a part the decoder can parse: a readable embedded response whose body, when
\* its status is 200, is valid JSON
Parseable(part) ==
  /\ part.form = "ok"
  /\ (part.StatusCode = 200 => jsonUnmarshal(part.Body).err = Nil)

\* the outer exchange succeeded with a well-framed multipart body
WellFramed(r) ==
  /\ r.StatusCode = 200
  /\ r.ContentType = CtBoundary
  /\ r.Body.closed

\* C6: when the outer exchange succeeds and every part is well-formed, the
\* call returns a result and a nil error whatever the embedded statuses; each
\* part with a status other than 200 is a failure carrying that status and
\* the raw body, and FailureCount > 0 exactly when there is such a part.
C6_EmbeddedFailuresArePartial ==
  \A c \in DOMAIN pc :
    (Done(c) /\ resp[c] # Nil /\ WellFramed(Val(resp[c]))
      /\ \A i \in 1..Len(Val(resp[c]).Body.parts) : Parseable(Val(resp[c]).Body.parts[i]))
    => LET parts == Val(resp[c]).Body.parts
       IN /\ err[c] = Nil
          /\ result[c] # Nil
          /\ Len(Val(result[c]).Responses) = Len(parts)
          /\ \A i \in 1..Len(parts) :
               parts[i].StatusCode # 200 =>
                 /\ ~Val(result[c]).Responses[i].Success
                 /\ Val(result[c]).Responses[i].ErrorCode = parts[i].StatusCode
                 /\ Val(result[c]).Responses[i].ErrorBody = parts[i].Body
          /\ (Val(result[c]).FailureCount > 0
              <=> \E i \in 1..Len(parts) : parts[i].StatusCode # 200)

C6_Witness ==
  \E c \in DOMAIN pc :
    /\ Done(c)
    /\ resp[c] # Nil
    /\ WellFramed(Val(resp[c]))
    /\ Val(resp[c]).Body.parts =
         <<[form |-> "ok", StatusCode |-> 200, Body |-> BodyName],
           [form |-> "ok", StatusCode |-> 404, Body |-> BodyText]>>
    /\ err[c] = Nil
    /\ Val(result[c]).FailureCount = 1

\* C7: a call whose context is cancelled while the outer exchange is in
\* progress returns the cancellation error and no result.
C7_CancelAbortsExchange ==
  \A c \in DOMAIN pc :
    (Done(c) /\ cancelledAt[c] = "awaiting")
    => /\ err[c] = Some(errCanceled)
       /\ result[c] = Nil

\* C8: in every returned result SuccessCount + FailureCount is the number of
\* outcomes, SuccessCount the number of successes and FailureCount the number
\* of failures.
C8_CountsMatchOutcomes ==
  \A c \in DOMAIN pc :
    result[c] # Nil =>
      LET r == Val(result[c])
      IN /\ r.SuccessCount + r.FailureCount = Len(r.Responses)
         /\ r.SuccessCount = Cardinality({i \in 1..Len(r.Responses) : r.Responses[i].Success})
         /\ r.FailureCount = Cardinality({i \in 1..Len(r.Responses) : ~r.Responses[i].Success})

C8_Witness ==
  \E c \in DOMAIN pc :
    /\ result[c] # Nil
    /\ Len(Val(result[c]).Responses) = 3
    /\ Val(result[c]).SuccessCount = 1
    /\ Val(result[c]).FailureCount = 2

\* C9: when a part at any position cannot be parsed, the call returns an
\* error and no result, whatever the parts before it.
C9_UnparseablePartAbortsDecode ==
  \A c \in DOMAIN pc :
    (Done(c) /\ resp[c] # Nil /\ Val(resp[c]).StatusCode = 200
      /\ Val(resp[c]).ContentType = CtBoundary
      /\ \E i \in 1..Len(Val(resp[c]).Body.parts) : ~Parseable(Val(resp[c]).Body.parts[i]))
    => /\ result[c] = Nil
       /\ err[c] # Nil
       /\ Val(err[c]).type = "error"

C9_Witness ==
  \E c \in DOMAIN pc :
    /\ Done(c)
    /\ resp[c] # Nil
    /\ Val(resp[c]).StatusCode = 200
    /\ Val(resp[c]).ContentType = CtBoundary
    /\ Val(resp[c]).Body.parts =
         <<[form |-> "ok", StatusCode |-> 200, Body |-> BodyName],
           [form |-> "ok", StatusCode |-> 404, Body |-> BodyText],
           [form |-> "ok", StatusCode |-> 200, Body |-> BodyText]>>
    /\ result[c] = Nil
    /\ err[c] = Some(errJSON)

\* C10: an outer response with status 200 whose Content-Type is malformed or
\* has no boundary parameter ends the call with an error of the decoder and
\* no result, never with an empty result.
C10_BadContentTypeIsError ==
  \A c \in DOMAIN pc :
    (Done(c) /\ resp[c] # Nil /\ Val(resp[c]).StatusCode = 200
      /\ Val(resp[c]).ContentType \in {CtNoBoundary, CtEmpty})
    => /\ result[c] = Nil
       /\ err[c] \in {Some(errContentType), Some(errBoundaryEmpty)}

C10_Witness ==
  \E c \in DOMAIN pc :
    /\ Done(c)
    /\ resp[c] # Nil
    /\ Val(resp[c]).StatusCode = 200
    /\ Val(resp[c]).ContentType = CtNoBoundary
    /\ err[c] = Some(errBoundaryEmpty)

\* C11 as stated: the response with the parts [200 {"name":
\* "projects/p/messages/123"}, 404 "not found"] decodes to SuccessCount 1,
\* FailureCount 1 and the outcomes [success with MessageID "123", failure
\* with 404 and "not found"].
C11_MessageIDIsLastSegment ==
  \A c \in DOMAIN pc :
    (Done(c) /\ resp[c] # Nil /\ WellFramed(Val(resp[c]))
      /\ Val(resp[c]).Body.parts =
           <<[form |-> "ok", StatusCode |-> 200, Body |-> BodyName],
             [form |-> "ok", StatusCode |-> 404, Body |-> BodyText]>>)
    => /\ err[c] = Nil
       /\ result[c] = Some([Responses |-> <<Success("123"), Failure(404, "not found")>>,
                            SuccessCount |-> 1,
                            FailureCount |-> 1])

\* C12: the envelope of a request has one part per message; the part at
\* position i carries Content-Id i and embeds the request for message i.
C12_ContentIdsFollowInput ==
  \A c \in DOMAIN pc :
    request[c] # Nil =>
      LET parts == Val(request[c]).Body.parts
      IN /\ Len(parts) = Len(messages[c])
         /\ \A i \in 1..Len(parts) :
              /\ parts[i].ContentId = i
              /\ parts[i].payload.Body.Message = messages[c][i]

C12_Witness ==
  \E c \in DOMAIN pc :
    /\ request[c] # Nil
    /\ Len(Val(request[c]).Body.parts) = 3
    /\ Val(request[c]).Body.parts[1].payload.Body.Message.Token = "t2"
    /\ Val(request[c]).Body.parts[3].payload.Body.Message.Token = "t1"
    /\ Val(request[c]).Body.parts[3].ContentId = 3

TokenFailed(c) == seen[c].token # Nil /\ Val(seen[c].token).err # Nil

\* C13 as stated: when the token provider fails the call ends with that
\* error, no envelope or outer request was built, the transport was not
\* invoked and there is no result.
C13_TokenFailureBeforeRequest ==
  \A c \in DOMAIN pc :
    (Done(c) /\ TokenFailed(c))
    => /\ err[c] = Val(seen[c].token).err
       /\ request[c] = Nil
       /\ TransportUntouched(c)
       /\ result[c] = Nil

\* C13 amended: when the token provider fails the call ends with that error,
\* the transport was not invoked and there is no result; the envelope and
\* the outer request had been built before, without the Authorization and
\* Content-Type headers, and are dropped.
C13_TokenFailureBeforeTransport ==
  \A c \in DOMAIN pc :
    (Done(c) /\ TokenFailed(c))
    => /\ err[c] = Val(seen[c].token).err
       /\ request[c] # Nil
       /\ Len(Val(request[c]).Body.parts) = Len(messages[c])
       /\ Val(request[c]).Header.Authorization = Nil
       /\ Val(request[c]).Header.ContentType = Nil
       /\ TransportUntouched(c)
       /\ result[c] = Nil

C13_Witness ==
  \E c \in DOMAIN pc :
    /\ Done(c)
    /\ TokenFailed(c)
    /\ err[c] = Some(errToken)
    /\ Len(messages[c]) = 2
    /\ request[c] # Nil

DryRunEntries == {"SendAllDryRun", "SendMulticastDryRun"}
MulticastEntries == {"SendMulticast", "SendMulticastDryRun"}

\* C14: every part of a batch request carries the dry-run value of the
\* method that was called: validate_only is true in all parts built by
\* SendAllDryRun and SendMulticastDryRun and false in all parts built by
\* SendAll and SendMulticast.
C14_PartsCarryDryRun ==
  \A c \in DOMAIN pc :
    request[c] # Nil =>
      \A i \in 1..Len(Val(request[c]).Body.parts) :
        Val(request[c]).Body.parts[i].payload.Body.ValidateOnly
          = (entry[c] \in DryRunEntries)

C14_Witness ==
  \E c \in DOMAIN pc :
    /\ entry[c] = "SendMulticastDryRun"
    /\ request[c] # Nil
    /\ Len(Val(request[c]).Body.parts) = 2
    /\ \A i \in 1..2 : Val(request[c]).Body.parts[i].payload.Body.ValidateOnly

\* a multicast argument that toMessages rejects
BadMulticast(m) ==
  \/ m = Nil
  \/ Len(Val(m).Tokens) = 0
  \/ Len(Val(m).Tokens) > maxMessages

C15_ValidateOnlyFlagIsDryRun ==
  \A c \in DOMAIN pc :
    (cli[c] # Nil /\ entry[c] # "") =>
      /\ (Val(cli[c]).validateOnly <=> entry[c] = "SendMulticastDryRun")
      /\ request[c] # Nil =>
           \A i \in 1..Len(Val(request[c]).Body.parts) :
             Val(request[c]).Body.parts[i].payload.Body.ValidateOnly
               = Val(cli[c]).validateOnly

\* the position of a call in its pass
Rank(p) == CASE p = "idle" -> 0 [] p = "token" -> 1 [] p = "awaiting" -> 2 [] p = "done" -> 3

\* a step of the call c itself
StepOf(c) == SendAll(c) \/ SendAllDryRun(c) \/ token(c) \/ Do(c)

TokenInvoked(c) == pc[c] = "token" \/ calls[c].token >= 1

\* C20: in a call the token provider is invoked at most once and only after
\* every message passed validation, and the transport only after the token
\* provider returned a token; after a validation failure the token provider
\* is never invoked, after a token failure the transport never is.
C20_ValidateThenTokenThenTransport ==
  \A c \in DOMAIN pc :
    /\ calls[c].token <= 1
    /\ TokenInvoked(c) =>
         /\ InvalidAt(messages[c]) = {}
         /\ calls[c].validate = Len(messages[c])
    /\ calls[c].transport >= 1 =>
         /\ calls[c].token = 1
         /\ seen[c].token # Nil
         /\ Val(seen[c].token).err = Nil
         /\ Val(request[c]).Header.Authorization = Some(<<"Bearer ", Val(seen[c].token).token>>)
    /\ (pc[c] # "idle" /\ InvalidAt(messages[c]) # {}) =>
         /\ ~TokenInvoked(c)
         /\ seen[c].token = Nil
    /\ TokenFailed(c) => TransportUntouched(c)

C20_Witness ==
  \E c \in DOMAIN pc :
    /\ Done(c)
    /\ Len(messages[c]) = 3
    /\ calls[c].validate = 3
    /\ calls[c].token = 1
    /\ calls[c].transport = 1
    /\ result[c] # Nil

\* C19: the client uses its configured endpoints: the outer request goes to
\* batchEndpoint, and the send URL of every embedded part is
\* endpoint + "/projects/" + projectID + "/messages:send".
C19_ConfiguredEndpointsUsed ==
  LET sendURL == <<client.fcmEndpoint, "/projects/", client.projectID, "/messages:send">>
  IN \A c \in DOMAIN pc :
       request[c] # Nil =>
         /\ Val(request[c]).URL = client.batchEndpoint
         /\ \A i \in 1..Len(Val(request[c]).Body.parts) :
              Val(request[c]).Body.parts[i].payload.URL = sendURL

\* what the call c returns when it runs alone with its messages, its dry-run
\* flag, the token it got and the answer of the transport it got
Alone(c) ==
  LET r == newBatchRequest(client, messages[c], dryRun[c])
      t == Val(seen[c].token)
      o == Val(seen[c].do)
      k == classify(addHeaders(Val(r.req), t.token), Val(o.resp))
  IN IF sizeError(messages[c]) # Nil THEN [result |-> Nil, err |-> sizeError(messages[c])]
     ELSE IF r.err # Nil THEN [result |-> Nil, err |-> r.err]
     ELSE IF t.err # Nil THEN [result |-> Nil, err |-> t.err]
     ELSE IF o.err # Nil THEN [result |-> Nil, err |-> o.err]
     ELSE [result |-> k.result, err |-> k.err]

\* everything the call c holds
CallState(c) ==
  <<pc[c], messages[c], dryRun[c], ctxDone[c], cancelledAt[c], request[c], resp[c],
    result[c], err[c], entry[c], multicast[c], cli[c], seen[c], calls[c]>>

\* C18: two calls that run concurrently on one client are independent: a
\* call that has ended returned what it returns alone with the same
\* messages, token and response, and a step of one call changes neither what
\* the other call holds nor the client.
C18_ConcurrentCallsIndependent ==
  /\ [](\A c \in DOMAIN pc :
          Done(c) => /\ result[c] = Alone(c).result
                     /\ err[c] = Alone(c).err)
  /\ [][/\ client' = client
        /\ \A c \in DOMAIN pc :
             (pc'[c] = pc[c] /\ ctxDone'[c] = ctxDone[c]) => CallState(c)' = CallState(c)]_vars

C18_Witness ==
  /\ pc["c1"] = "done"
  /\ result["c1"] # Nil
  /\ cancelledAt["c1"] = "never"
  /\ pc["c2"] = "awaiting"
  /\ entry["c2"] = "SendAllDryRun"

\* C21: every batch call returns exactly one of a result and an error: when
\* the call has returned, its result is non-nil if and only if its error is
\* nil, whichever path through sendBatch, newBatchRequest and
\* newBatchResponse it took.
C21_ResultXorError ==
  \A c \in DOMAIN pc :
    Done(c) => ((result[c] # Nil) <=> (err[c] = Nil))

\* a decoded answer in which no message succeeded is still a result
C21_Witness ==
  \E c \in DOMAIN pc :
    /\ Done(c)
    /\ calls[c].decoder = 1
    /\ err[c] = Nil
    /\ result[c] # Nil
    /\ Val(result[c]).SuccessCount = 0
    /\ Val(result[c]).FailureCount >= 2
====
